---- MODULE Spec2Model ----
(***************************************************************************)
(* A model of tesla.py: the file-backed Modbus RTU slave data store        *)
(* FileBasedModbusDataStore (CRC16, response frame rendering, per-address  *)
(* response files, and the getValues read dispatch).                       *)
(***************************************************************************)
EXTENDS Integers, Sequences, FiniteSets, TLC

VARIABLES
    files,       \* the response directory: file name -> [exists, fault, lines]
    dummy_mode,  \* self.dummy_mode, fixed by __init__
    last,        \* observation of the most recent getValues call
    memo,        \* observation of some earlier getValues call (history)
    calc         \* observation of a direct call of a pure helper

vars == <<files, dummy_mode, last, memo, calc>>

(***************************************************************************)
(* Bounds of the model.                                                    *)
(***************************************************************************)
MaxCount == 2       \* requested counts 1..MaxCount of Spec
MaxLookupCount == 3 \* requested counts 1..MaxLookupCount of SpecLookup
MaxLines == 2       \* lines per enumerated response file
MaxCrcLen == 2      \* length of enumerated CRC inputs
MaxVals == 2        \* length of enumerated register value lists
LongVals == 128     \* length of the longest register value list

(***************************************************************************)
(* Python integer operators on non-negative integers.                      *)
(***************************************************************************)
RECURSIVE BitXor(_, _)
\* a ^ b
BitXor(a, b) ==
    IF a = 0 THEN b
    ELSE IF b = 0 THEN a
    ELSE (((a % 2) + (b % 2)) % 2) + 2 * BitXor(a \div 2, b \div 2)

\* a >> n
ShiftRight(a, n) == a \div (2 ^ n)

\* a & 0xFF
LowByte(a) == a % 256

\* a & 0x0001
LowBit(a) == a % 2

(***************************************************************************)
(* calculate_crc: Modbus RTU CRC16.                                        *)
(***************************************************************************)
CrcInit == 65535    \* 0xFFFF
CrcPoly == 40961    \* 0xA001

\* the mutant of crc_step: the unreflected polynomial 0x8005
crc_step_unreflected(crc) ==
    IF LowBit(crc) = 1 THEN BitXor(ShiftRight(crc, 1), 32773)
    ELSE ShiftRight(crc, 1)

\* one pass of the inner loop body (lines 79-82)
crc_step(crc) ==
    IF LowBit(crc) = 1 THEN BitXor(ShiftRight(crc, 1), CrcPoly)
    ELSE ShiftRight(crc, 1)

RECURSIVE crc_bits(_, _)
\* for _ in range(n): crc_step
crc_bits(crc, n) == IF n = 0 THEN crc ELSE crc_bits(crc_step(crc), n - 1)

\* the outer loop body: crc ^= x, then eight inner passes
crc_byte(crc, x) == crc_bits(BitXor(crc, x), 8)

RECURSIVE crc_fold(_, _, _, _)
\* the outer loop over data[lo..hi], in order, starting from crc. The range
\* is split in halves, and the first half's result is tested before it is
\* handed on, only to keep the evaluation shallow: the value is that of the
\* left-to-right loop.
crc_fold(data, lo, hi, crc) ==
    IF lo > hi THEN crc
    ELSE IF lo = hi THEN crc_byte(crc, data[lo])
    ELSE LET mid == (lo + hi) \div 2
             left == crc_fold(data, lo, mid, crc)
         IN  IF left >= 0 THEN crc_fold(data, mid + 1, hi, left) ELSE left

calculate_crc(data) == crc_fold(data, 1, Len(data), CrcInit)

(***************************************************************************)
(* format_modbus_response: the frame and its hexadecimal rendering.        *)
(***************************************************************************)
HexDigits == <<"0", "1", "2", "3", "4", "5", "6", "7",
               "8", "9", "A", "B", "C", "D", "E", "F">>

RECURSIVE HexOf(_)
\* the digits of format(x, 'X') for x >= 0
HexOf(x) ==
    IF x < 16 THEN <<HexDigits[x + 1]>>
    ELSE Append(HexOf(x \div 16), HexDigits[(x % 16) + 1])

\* f'{x:02X}': upper-case hexadecimal, zero-padded to at least two digits
Format02X(x) == IF x < 16 THEN <<"0">> \o HexOf(x) ELSE HexOf(x)

RECURSIVE JoinRange(_, _, _)
\* ' '.join(tokens[lo..hi]), lo <= hi
JoinRange(tokens, lo, hi) ==
    IF lo = hi THEN tokens[lo]
    ELSE LET mid == (lo + hi) \div 2
         IN  JoinRange(tokens, lo, mid) \o <<" ">> \o JoinRange(tokens, mid + 1, hi)

\* ' '.join(tokens)
JoinSpace(tokens) ==
    IF Len(tokens) = 0 THEN <<>> ELSE JoinRange(tokens, 1, Len(tokens))

\* for value in values: payload.extend([(value >> 8) & 0xFF, value & 0xFF])
value_bytes(values) ==
    [i \in 1..(2 * Len(values)) |->
        IF i % 2 = 1 THEN LowByte(ShiftRight(values[(i + 1) \div 2], 8))
        ELSE LowByte(values[i \div 2])]

\* the mutant of frame_payload: CRC appended high byte first
frame_payload_crc_swapped(slave_address, function_code, values) ==
    LET byte_count == Len(values) * 2
        payload == <<slave_address, function_code, byte_count>>
                      \o value_bytes(values)
        crc == calculate_crc(payload)
    IN  payload \o <<LowByte(ShiftRight(crc, 8)), LowByte(crc)>>

\* the list `payload` when line 66 is reached
frame_payload(slave_address, function_code, values) ==
    LET byte_count == Len(values) * 2
        payload == <<slave_address, function_code, byte_count>>
                      \o value_bytes(values)
        crc == calculate_crc(payload)
    IN  payload \o <<LowByte(crc), LowByte(ShiftRight(crc, 8))>>

format_modbus_response(slave_address, function_code, values) ==
    LET payload == frame_payload(slave_address, function_code, values)
    IN  JoinSpace([i \in 1..Len(payload) |-> Format02X(payload[i])])

(***************************************************************************)
(* Text of a response file.  A character is its Unicode code point, a line *)
(* the sequence of its characters without the line terminator.             *)
(***************************************************************************)
\* the ASCII characters from space (32) to underscore (95)
AsciiLow == <<" ", "!", "\"", "#", "$", "%", "&", "'", "(", ")", "*", "+",
              ",", "-", ".", "/", "0", "1", "2", "3", "4", "5", "6", "7",
              "8", "9", ":", ";", "<", "=", ">", "?", "@", "A", "B", "C",
              "D", "E", "F", "G", "H", "I", "J", "K", "L", "M", "N", "O",
              "P", "Q", "R", "S", "T", "U", "V", "W", "X", "Y", "Z", "[",
              "\\", "]", "^", "_">>

\* the ASCII characters from a (97) to tilde (126)
AsciiHigh == <<"a", "b", "c", "d", "e", "f", "g", "h", "i", "j", "k", "l",
               "m", "n", "o", "p", "q", "r", "s", "t", "u", "v", "w", "x",
               "y", "z", "{", "|", "}", "~">>

\* ord(ch) of a printable ASCII character
Ord(ch) ==
    IF \E i \in 1..Len(AsciiLow) : AsciiLow[i] = ch
    THEN 31 + CHOOSE i \in 1..Len(AsciiLow) : AsciiLow[i] = ch
    ELSE 96 + CHOOSE i \in 1..Len(AsciiHigh) : AsciiHigh[i] = ch

\* the text written with the printable ASCII characters chars
Text(chars) == [i \in 1..Len(chars) |-> Ord(chars[i])]

\* the characters str.isspace() holds for, which str.strip() removes: tab,
\* LF, VT, FF, CR, the separators 0x1C-0x1F, space, NEL, no-break space and
\* the Unicode spaces
Whitespace ==
    (9..13) \cup (28..32) \cup {133, 160, 5760} \cup (8192..8202)
        \cup {8232, 8233, 8239, 8287, 12288}

\* the characters int() skips around a literal (C isspace): the separators
\* 0x1C-0x1F are not among them
AsciiSpace == (9..13) \cup {32}

\* the digit zero of every script with decimal digits (Unicode 14.0); the
\* digits one to nine of the script follow it
DecimalZeros ==
    {48, 1632, 1776, 1984, 2406, 2534, 2662, 2790, 2918, 3046, 3174, 3302,
     3430, 3558, 3664, 3792, 3872, 4160, 4240, 6112, 6160, 6470, 6608, 6784,
     6800, 6992, 7088, 7232, 7248, 42528, 43216, 43264, 43472, 43504, 43600,
     44016, 65296, 66720, 68912, 69734, 69872, 69942, 70096, 70384, 70736,
     70864, 71248, 71360, 71472, 71904, 72016, 72784, 73040, 73120, 92768,
     92864, 93008, 120782, 120792, 120802, 120812, 120822, 123200, 123632,
     125264, 130032}

\* c is a decimal digit of some script
IsDecimal(c) == \E z \in DecimalZeros : c \in z..(z + 9)

\* its value
DecimalValue(c) == c - (CHOOSE z \in DecimalZeros : c \in z..(z + 9))

\* what int() makes of one character before it parses: ASCII below DEL is
\* kept, other whitespace becomes a space, a decimal digit of any script its
\* ASCII digit, anything else a question mark
to_ascii_char(c) ==
    IF c < 127 THEN c
    ELSE IF c \in Whitespace THEN 32
    ELSE IF IsDecimal(c) THEN 48 + DecimalValue(c)
    ELSE 63

to_ascii(s) == [i \in 1..Len(s) |-> to_ascii_char(s[i])]

\* c is one of 0-9, A-F, a-f
IsHexDigit(c) == c \in (48..57) \cup (65..70) \cup (97..102)

\* the value of one hexadecimal digit
HexDigitValue(c) ==
    IF c \in 48..57 THEN c - 48
    ELSE IF c \in 65..70 THEN c - 55
    ELSE c - 87

\* s without what precedes and follows its positions inked
strip_to(s, inked) ==
    IF inked = {} THEN <<>>
    ELSE SubSeq(s, CHOOSE i \in inked : \A j \in inked : i <= j,
                   CHOOSE i \in inked : \A j \in inked : j <= i)

\* str.strip(): leading and trailing whitespace removed
strip(s) == strip_to(s, {i \in 1..Len(s) : s[i] \notin Whitespace})

\* s.startswith('0x')
startswith_0x(s) == Len(s) >= 2 /\ s[1] = Ord("0") /\ s[2] = Ord("x")

\* the mutant of line_kept: the prefix is looked for in the unstripped line
line_kept_unstripped(line) == startswith_0x(line)

\* the filter of the comprehension (line 102)
line_kept(line) == startswith_0x(strip(line))

RECURSIVE DigitsValue(_, _)
\* the base-16 value of the digits of s, underscores skipped, after acc
DigitsValue(s, acc) ==
    IF Len(s) = 0 THEN acc
    ELSE IF s[1] = Ord("_") THEN DigitsValue(Tail(s), acc)
    ELSE DigitsValue(Tail(s), 16 * acc + HexDigitValue(s[1]))

\* the digit part int() accepts: digits, single underscores between them
ValidDigits(body) ==
    /\ Len(body) >= 1
    /\ IsHexDigit(body[1])
    /\ IsHexDigit(body[Len(body)])
    /\ \A i \in 1..Len(body) : IsHexDigit(body[i]) \/ body[i] = Ord("_")
    /\ \A i \in 1..(Len(body) - 1) :
          ~(body[i] = Ord("_") /\ body[i + 1] = Ord("_"))

\* the digits after an optional sign and prefix
int16_body(body) ==
    IF ValidDigits(body) THEN [ok |-> TRUE, val |-> DigitsValue(body, 0)]
    ELSE [ok |-> FALSE, val |-> 0]

\* one underscore is allowed between the prefix and the digits
after_prefix(v) == IF Len(v) >= 1 /\ v[1] = Ord("_") THEN Tail(v) ELSE v

\* an unsigned literal, with or without the 0x / 0X prefix
int16_unsigned(u) ==
    IF Len(u) >= 2 /\ u[1] = Ord("0") /\ u[2] \in {Ord("x"), Ord("X")}
    THEN int16_body(after_prefix(SubSeq(u, 3, Len(u))))
    ELSE int16_body(u)

negated(r) == [ok |-> r.ok, val |-> 0 - r.val]

\* a literal with its sign, nothing around it
int16_stripped(t) ==
    IF Len(t) >= 1 /\ t[1] = Ord("-") THEN negated(int16_unsigned(Tail(t)))
    ELSE IF Len(t) >= 1 /\ t[1] = Ord("+") THEN int16_unsigned(Tail(t))
    ELSE int16_unsigned(t)

\* the literal in ASCII, the whitespace around it skipped
int16_ascii(a) ==
    int16_stripped(strip_to(a, {i \in 1..Len(a) : a[i] \notin AsciiSpace}))

\* int(s, 16): [ok |-> FALSE] stands for ValueError
int16(s) == int16_ascii(to_ascii(s))

RECURSIVE DecimalOf(_)
\* str(n) for n >= 0
DecimalOf(n) ==
    IF n < 10 THEN <<HexDigits[n + 1]>>
    ELSE Append(DecimalOf(n \div 10), HexDigits[(n % 10) + 1])

\* os.path.join(self.response_dir, str(register_address)), as the name of
\* the file inside the response directory
file_path(register_address) == DecimalOf(register_address)

\* What open(file_path, 'r') and reading meet under a name of the response
\* directory: nothing (NoFile), a text file (File), something open() refuses
\* with an OSError other than FileNotFoundError, such as a directory or a
\* file without read permission (Unopenable), or a file whose bytes the
\* encoding cannot decode (Undecodable).
NoFile == [exists |-> FALSE, fault |-> "none", lines |-> <<>>]
File(lines) == [exists |-> TRUE, fault |-> "none", lines |-> lines]
Unopenable == [exists |-> TRUE, fault |-> "OSError", lines |-> <<>>]
Undecodable == [exists |-> TRUE, fault |-> "UnicodeDecodeError", lines |-> <<>>]

(***************************************************************************)
(* Results and log records.  A call returns None or a list (Some), or      *)
(* leaves with an exception (Raise).                                       *)
(***************************************************************************)
None == [some |-> FALSE, vals |-> <<>>]
Some(vals) == [some |-> TRUE, vals |-> vals]
Raise(exc) == [some |-> FALSE, vals |-> <<>>, raised |-> exc]

LogRec(level, event, args, text) ==
    [level |-> level, event |-> event, args |-> args, text |-> text]

(***************************************************************************)
(* validate_file_response: [ret, log].                                     *)
(***************************************************************************)
\* the end of the slice seq[:count]
SliceEnd(n, count) ==
    IF count >= n THEN n
    ELSE IF count >= 0 THEN count
    ELSE IF n + count >= 0 THEN n + count
    ELSE 0

\* hex_values[:count]
Prefix(seq, count) == SubSeq(seq, 1, SliceEnd(Len(seq), count))

\* the mutant of raises_value_error: a malformed line is taken as 0
raises_value_error_never(parsed) == FALSE

\* building hex_values raises ValueError: int() fails on some kept line
raises_value_error(parsed) == \E i \in 1..Len(parsed) : ~parsed[i].ok

\* the mutant of insufficient: exactly count values are refused too
insufficient_off_by_one(hex_values, count) == Len(hex_values) <= count

\* if len(hex_values) < count
insufficient(hex_values, count) == Len(hex_values) < count

\* lines 105-117: the list hex_values was built
validate_values(hex_values, register_address, count) ==
    IF insufficient(hex_values, count)
    THEN [ret |-> None,
          log |-> <<LogRec("WARNING", "Insufficient data",
                           <<register_address, count, Len(hex_values)>>, <<>>)>>]
    ELSE [ret |-> Some(Prefix(hex_values, count)),
          log |-> <<LogRec("INFO", "Request for register",
                           <<register_address, count, Len(hex_values)>>, <<>>)>>]

\* except FileNotFoundError (lines 119-121)
file_not_found(register_address) ==
    [ret |-> None,
     log |-> <<LogRec("WARNING", "No response file found",
                      <<register_address>>, <<>>)>>]

\* except ValueError (lines 122-124)
value_error(register_address) ==
    [ret |-> None,
     log |-> <<LogRec("ERROR", "Error parsing file",
                      <<register_address>>, <<>>)>>]

\* an exception no except clause names leaves validate_file_response
uncaught(exc) == [ret |-> Raise(exc), log |-> <<>>]

\* the comprehension's int() results, then the rest of the try block
validate_parsed(parsed, register_address, count) ==
    IF raises_value_error(parsed)
    THEN value_error(register_address)
    ELSE validate_values([i \in 1..Len(parsed) |-> parsed[i].val],
                         register_address, count)

\* int(line.strip(), 16) for the kept lines, in file order
parse_lines(kept) == [i \in 1..Len(kept) |-> int16(strip(kept[i]))]

\* the body of validate_file_response once open() has answered with f:
\* FileNotFoundError is caught, another OSError of open() is not, and the
\* UnicodeDecodeError of reading is a ValueError
validate_response(f, register_address, count) ==
    IF ~f.exists THEN file_not_found(register_address)
    ELSE IF f.fault = "OSError" THEN uncaught("OSError")
    ELSE IF f.fault = "UnicodeDecodeError" THEN value_error(register_address)
    ELSE validate_parsed(parse_lines(SelectSeq(f.lines, line_kept)),
                         register_address, count)

\* the mutant of open_file: the file as the previous request saw it
open_file_cached(path) ==
    IF last.kind = "call" /\ file_path(last.address) = path THEN last.file
    ELSE IF path \in DOMAIN files THEN files[path] ELSE NoFile

\* open(file_path, 'r'): what the directory holds under the name now
open_file(path) == IF path \in DOMAIN files THEN files[path] ELSE NoFile

validate_file_response(register_address, count) ==
    validate_response(open_file(file_path(register_address)),
                      register_address, count)

(***************************************************************************)
(* getValues: [ret, values, log, lookups, frames, fallback].  values is    *)
(* what validate_file_response gave (None when it is not called), lookups  *)
(* the calls of validate_file_response, frames the results of              *)
(* format_modbus_response, fallback the calls of super().getValues, and    *)
(* super_result what super().getValues answers when it is called.          *)
(***************************************************************************)
ReadCodes == {3, 4}
DefaultSlave == 1

Received(fx, address, count) ==
    LogRec("INFO", "Received request", <<fx, address, count>>, <<>>)

\* lines 147-158: values is not None and full_response was rendered
respond(fx, address, count, found, full_response) ==
    [ret |-> IF ~dummy_mode THEN found.ret ELSE None,
     values |-> found.ret,
     log |-> <<Received(fx, address, count)>> \o found.log \o
             <<LogRec("INFO",
                      IF ~dummy_mode THEN "Full Modbus Response (Hex)"
                      ELSE "Full Modbus Response (not sent) (Hex)",
                      <<>>, full_response)>>,
     lookups |-> <<<<address, count>>>>,
     frames |-> <<full_response>>,
     fallback |-> <<>>]

\* line 161: no valid response
no_response(fx, address, count, found) ==
    [ret |-> None,
     values |-> found.ret,
     log |-> <<Received(fx, address, count)>> \o found.log,
     lookups |-> <<<<address, count>>>>,
     frames |-> <<>>,
     fallback |-> <<>>]

\* line 143 raised: the exception leaves getValues as it came
propagate(fx, address, count, found) ==
    [ret |-> found.ret,
     values |-> found.ret,
     log |-> <<Received(fx, address, count)>> \o found.log,
     lookups |-> <<<<address, count>>>>,
     frames |-> <<>>,
     fallback |-> <<>>]

\* line 164: return super().getValues(fx, address, count)
delegate(fx, address, count, super_result) ==
    [ret |-> super_result,
     values |-> None,
     log |-> <<Received(fx, address, count)>>,
     lookups |-> <<>>,
     frames |-> <<>>,
     fallback |-> <<<<fx, address, count>>>>]

\* lines 142-161, found what validate_file_response gave
read_registers(fx, address, count, found) ==
    IF found.ret.some
    THEN respond(fx, address, count, found,
                 format_modbus_response(DefaultSlave, fx, found.ret.vals))
    ELSE IF found.ret = None
    THEN no_response(fx, address, count, found)
    ELSE propagate(fx, address, count, found)

\* the mutant of getValues: dummy mode silences the other function codes too
getValues_dummy_silences_all(fx, address, count, super_result) ==
    IF fx \in ReadCodes
    THEN read_registers(fx, address, count,
                        validate_file_response(address, count))
    ELSE IF dummy_mode
    THEN [delegate(fx, address, count, super_result) EXCEPT !.ret = None]
    ELSE delegate(fx, address, count, super_result)

getValues(fx, address, count, super_result) ==
    IF fx \in ReadCodes
    THEN read_registers(fx, address, count,
                        validate_file_response(address, count))
    ELSE delegate(fx, address, count, super_result)

(***************************************************************************)
(* Inputs.  Catalog lists the lines response files are built from, each    *)
(* with what Python makes of it: "skip" (the stripped line does not start  *)
(* with 0x), "value" (int(line, 16) is val) or "bad" (int raises           *)
(* ValueError).  The claims are stated against this table.                 *)
(***************************************************************************)
Catalog == <<
    [text |-> Text(<<"0", "x", "A", "B">>),
     kind |-> "value", val |-> 171],
    [text |-> Text(<<"c", "o", "m", "m", "e", "n", "t">>),
     kind |-> "skip", val |-> 0],
    [text |-> <<>>,
     kind |-> "skip", val |-> 0],
    [text |-> Text(<<"0", "x", "1", "0">>),
     kind |-> "value", val |-> 16],
    [text |-> Text(<<"0", "x", "Z", "Z">>),
     kind |-> "bad", val |-> 0],
    [text |-> Text(<<" ", "0", "x", "1", "f">>) \o <<9>>,
     kind |-> "value", val |-> 31],
    [text |-> Text(<<"0", "x", "1", "2", "3", "4", "5">>),
     kind |-> "value", val |-> 74565],
    [text |-> Text(<<"0", "x">>),
     kind |-> "bad", val |-> 0],
    [text |-> Text(<<"0", "X", "1", "0">>),
     kind |-> "skip", val |-> 0],
    [text |-> Text(<<"0", "x", "1", "_", "0">>),
     kind |-> "value", val |-> 16],
    [text |-> Text(<<"#", "0", "x", "1", "0">>),
     kind |-> "skip", val |-> 0],
    [text |-> Text(<<"0", "x", "F", "F", "F", "F">>),
     kind |-> "value", val |-> 65535],
    [text |-> Text(<<"0", "x", "A">>),
     kind |-> "value", val |-> 10],
    [text |-> Text(<<"0", "x", "1", "4">>),
     kind |-> "value", val |-> 20],
    [text |-> Text(<<"0", "x", "1", "E">>),
     kind |-> "value", val |-> 30],
    [text |-> Text(<<"0", "x", "2", "8">>),
     kind |-> "value", val |-> 40],
    [text |-> <<12>> \o Text(<<"0", "x", "1", "0">>),
     kind |-> "value", val |-> 16],
    [text |-> Text(<<"0", "x", "1", "0">>) \o <<160>>,
     kind |-> "value", val |-> 16],
    [text |-> Text(<<"0", "x">>) \o <<65297, 65296>>,
     kind |-> "value", val |-> 16],
    [text |-> <<28>> \o Text(<<"0", "x", "A", "B">>),
     kind |-> "value", val |-> 171],
    [text |-> Text(<<"0", "x">>) \o <<178>>,
     kind |-> "bad", val |-> 0],
    [text |-> <<65296>> \o Text(<<"x", "1", "0">>),
     kind |-> "skip", val |-> 0],
    [text |-> Text(<<"0", "x", "1">>) \o <<12288>> \o Text(<<"0">>),
     kind |-> "bad", val |-> 0],
    [text |-> Text(<<"0", "x">>) \o <<1633, 1632>> \o Text(<<"_", "f">>),
     kind |-> "value", val |-> 271] >>

L_0xAB == Catalog[1].text
L_comment == Catalog[2].text
L_empty == Catalog[3].text
L_0x10 == Catalog[4].text
L_0xZZ == Catalog[5].text
L_ws_0x1f == Catalog[6].text
L_0x12345 == Catalog[7].text
L_0x == Catalog[8].text
L_0X10 == Catalog[9].text
L_0x1_0 == Catalog[10].text
L_hash == Catalog[11].text
L_0xFFFF == Catalog[12].text
L_0xA == Catalog[13].text
L_0x14 == Catalog[14].text
L_0x1E == Catalog[15].text
L_0x28 == Catalog[16].text
L_ff_0x10 == Catalog[17].text
L_0x10_nbsp == Catalog[18].text
L_0x_fullwidth == Catalog[19].text
L_fs_0xAB == Catalog[20].text
L_0x_superscript == Catalog[21].text
L_fullwidth0_x10 == Catalog[22].text
L_0x1_ideographic_0 == Catalog[23].text
L_0x_arabic == Catalog[24].text

\* the lines enumerated files are built from
EnumTexts == {L_0xAB, L_comment, L_empty, L_0x10, L_0xZZ, L_ws_0x1f,
              L_0x12345, L_0x, L_0X10, L_0x1_0, L_hash, L_0xFFFF,
              L_ff_0x10, L_0x10_nbsp, L_0x_fullwidth}

LineKind(line) == Catalog[CHOOSE i \in 1..Len(Catalog) : Catalog[i].text = line].kind
LineVal(line) == Catalog[CHOOSE i \in 1..Len(Catalog) : Catalog[i].text = line].val

\* the register addresses requested (responses/40002 is the source's example)
Addrs == {40001, 40002}
Counts == 1..MaxCount
LookupCounts == 1..MaxLookupCount
Names == {file_path(a) : a \in Addrs}

\* every file of at most MaxLines catalogue lines
EnumFiles == {File(l) : l \in UNION {[1..n -> EnumTexts] : n \in 0..MaxLines}}

\* the files of the specification's examples
ExampleFiles == {
    File(<<L_0xAB, L_comment, L_empty, L_0x10>>),
    File(<<L_0xA, L_0x14, L_0x1E, L_0x28>>),
    File(<<L_0x10, L_0xZZ, L_0xAB, L_0xFFFF>>),
    File(<<L_0xA, L_0x14, L_0x1E, L_0x28, L_0xFFFF, L_ws_0x1f>>) }

\* lines with whitespace and digits beyond ASCII, alone and after a value
UnicodeTexts == {L_ff_0x10, L_0x10_nbsp, L_0x_fullwidth, L_fs_0xAB,
                 L_0x_superscript, L_fullwidth0_x10, L_0x1_ideographic_0,
                 L_0x_arabic}

UnicodeFiles ==
    {File(<<l>>) : l \in UnicodeTexts}
        \cup {File(<<L_0xAB, l>>) : l \in UnicodeTexts}

RichFiles ==
    {NoFile, Unopenable, Undecodable} \cup EnumFiles \cup ExampleFiles
        \cup UnicodeFiles

SmallFiles == {
    NoFile,
    File(<<L_0xAB, L_comment, L_0x10>>),
    File(<<L_0x10, L_0xZZ>>) }

\* what super().getValues answers from a store left at its default
DefaultStoreResult(count) == Some([i \in 1..count |-> 0])

\* what super().getValues may answer for count registers
SuperResults(count) ==
    {DefaultStoreResult(count), Some([i \in 1..count |-> 7])}

NoCall == [kind |-> "none", fx |-> 0, address |-> 0, count |-> 0,
           file |-> NoFile, sup |-> None, ret |-> None, values |-> None, log |-> <<>>,
           lookups |-> <<>>, frames |-> <<>>, fallback |-> <<>>]

NoCalc == [op |-> "none", slave |-> 0, fc |-> 0, data |-> <<>>,
           crc |-> 0, text |-> <<>>]

(***************************************************************************)
(* Actions.                                                                *)
(***************************************************************************)
\* the operator drops a new response file into the directory
CreateFile(name, f) ==
    /\ ~files[name].exists
    /\ f.exists
    /\ files' = [files EXCEPT ![name] = f]
    /\ UNCHANGED <<dummy_mode, last, memo, calc>>

\* the operator rewrites a response file
EditFile(name, f) ==
    /\ files[name].exists
    /\ f.exists
    /\ f # files[name]
    /\ files' = [files EXCEPT ![name] = f]
    /\ UNCHANGED <<dummy_mode, last, memo, calc>>

\* the operator removes a response file
DeleteFile(name) ==
    /\ files[name].exists
    /\ files' = [files EXCEPT ![name] = NoFile]
    /\ UNCHANGED <<dummy_mode, last, memo, calc>>

\* the file of an address as the directory holds it
FileOnDisk(address) ==
    IF file_path(address) \in DOMAIN files THEN files[file_path(address)]
    ELSE NoFile

\* one request served by getValues; the call is recorded in last: a read
\* request together with the file its address has at that moment, a
\* delegated request together with the default handler's answer
Observe(fx, address, count, super_result) ==
    LET r == getValues(fx, address, count, super_result)
    IN  [kind |-> "call", fx |-> fx, address |-> address, count |-> count,
         file |-> IF fx \in ReadCodes THEN FileOnDisk(address) ELSE NoFile,
         sup |-> IF r.fallback # <<>> THEN super_result ELSE None,
         ret |-> r.ret, values |-> r.values, log |-> r.log,
         lookups |-> r.lookups, frames |-> r.frames, fallback |-> r.fallback]

\* a request; the call it replaces in last is forgotten
GetValues(fx, address, count, super_result) ==
    /\ last' = Observe(fx, address, count, super_result)
    /\ UNCHANGED <<files, dummy_mode, memo, calc>>

\* a request; the read request it replaces in last is kept in memo, which
\* is written once: any earlier read request of a run can be the one kept
GetValuesRemember(fx, address, count, super_result) ==
    /\ memo.kind = "none"
    /\ last.kind = "call"
    /\ last.fx \in ReadCodes
    /\ last' = Observe(fx, address, count, super_result)
    /\ memo' = last
    /\ UNCHANGED <<files, dummy_mode, calc>>

\* a direct call of calculate_crc
CalcCrc(data) ==
    /\ calc' = [NoCalc EXCEPT !.op = "crc", !.data = data,
                              !.crc = calculate_crc(data)]
    /\ UNCHANGED <<files, dummy_mode, last, memo>>

\* a direct call of format_modbus_response
BuildFrame(slave_address, function_code, values) ==
    /\ calc' = [NoCalc EXCEPT !.op = "frame", !.slave = slave_address,
                              !.fc = function_code, !.data = values,
                              !.text = format_modbus_response(
                                           slave_address, function_code, values)]
    /\ UNCHANGED <<files, dummy_mode, last, memo>>

(***************************************************************************)
(* Spec: the server at work.  The operator creates, edits and deletes      *)
(* response files between requests.                                        *)
(***************************************************************************)
FxCodes == {3, 4, 6}

Init ==
    /\ files \in [Names -> SmallFiles]
    /\ dummy_mode \in BOOLEAN
    /\ last = NoCall
    /\ memo = NoCall
    /\ calc = NoCalc

Next ==
    \/ \E n \in Names, f \in SmallFiles : CreateFile(n, f)
    \/ \E n \in Names, f \in SmallFiles : EditFile(n, f)
    \/ \E n \in Names : DeleteFile(n)
    \/ \E fx \in FxCodes, a \in Addrs, c \in Counts :
          GetValues(fx, a, c, DefaultStoreResult(c))
    \/ \E fx \in FxCodes, a \in Addrs, c \in Counts :
          GetValuesRemember(fx, a, c, DefaultStoreResult(c))

Spec == Init /\ [][Next]_vars

(***************************************************************************)
(* SpecLookup: requests against one response file of any content.          *)
(***************************************************************************)
LookupFxCodes == {1, 3, 4, 6}

InitLookup ==
    /\ \E a \in Addrs, f \in RichFiles :
          files = [n \in Names |-> IF n = file_path(a) THEN f ELSE NoFile]
    /\ dummy_mode \in BOOLEAN
    /\ last = NoCall
    /\ memo = NoCall
    /\ calc = NoCalc

\* one request per run: the file and the mode are drawn by InitLookup
NextLookup ==
    /\ last.kind = "none"
    /\ \E fx \in LookupFxCodes, a \in Addrs, c \in LookupCounts :
          \E r \in SuperResults(c) : GetValues(fx, a, c, r)

SpecLookup == InitLookup /\ [][NextLookup]_vars

(***************************************************************************)
(* SpecCrc and SpecFrame: the pure helpers applied to bounded inputs.      *)
(***************************************************************************)
InitCalc ==
    /\ files = [n \in Names |-> NoFile]
    /\ dummy_mode = FALSE
    /\ last = NoCall
    /\ memo = NoCall
    /\ calc = NoCalc

CrcBytes == {0, 1, 2, 127, 128, 255}

CrcVectors == {
    <<1, 3, 0, 0, 0, 1>>,
    <<49, 50, 51, 52, 53, 54, 55, 56, 57>>,
    <<1, 3, 2, 0, 171>> }

CrcInputs ==
    UNION {[1..n -> CrcBytes] : n \in 0..MaxCrcLen}
        \cup {<<b>> : b \in 0..255} \cup CrcVectors

NextCrc == calc.op = "none" /\ \E data \in CrcInputs : CalcCrc(data)

SpecCrc == InitCalc /\ [][NextCrc]_vars

SlaveSamples == {0, 1, 17, 247, 255}
FcSamples == {1, 3, 4, 255}
ValueSamples == {0, 1, 171, 255, 256, 4660, 65535}

FrameValues ==
    UNION {[1..n -> ValueSamples] : n \in 0..MaxVals}
        \cup {[i \in 1..n |-> v] : n \in {LongVals - 1, LongVals}, v \in {0, 65535}}

NextFrame ==
    /\ calc.op = "none"
    /\ \E s \in SlaveSamples, fc \in FcSamples, v \in FrameValues :
          BuildFrame(s, fc, v)

SpecFrame == InitCalc /\ [][NextFrame]_vars

(***************************************************************************)
(* The claims.  What a file should yield is read off Catalog, not off the  *)
(* model of the parser.                                                    *)
(***************************************************************************)
IsPrefixed(line) == LineKind(line) # "skip"

\* the lines of a file that start with 0x once trimmed, in file order
ExpKept(f) == SelectSeq(f.lines, IsPrefixed)
\* some kept line is not a hexadecimal literal
ExpBad(f) == \E i \in 1..Len(f.lines) : LineKind(f.lines[i]) = "bad"
\* the numbers of the kept lines
ExpValues(f) == [i \in 1..Len(ExpKept(f)) |-> LineVal(ExpKept(f)[i])]
\* how many lines of the file are hexadecimal literals
GoodCount(f) == Cardinality({i \in 1..Len(f.lines) : LineKind(f.lines[i]) = "value"})
\* the file is there and was read as text
IsText(f) == f.exists /\ f.fault = "none"
\* open() answers for the file: it is absent, or it is opened
Opens(f) == f.fault # "OSError"
\* the file satisfies a request for count registers
Satisfies(f, count) == IsText(f) /\ ~ExpBad(f) /\ Len(ExpValues(f)) >= count

ReadCall == last.kind = "call" /\ last.fx \in ReadCodes
OtherCall == last.kind = "call" /\ last.fx \notin ReadCodes

\* the log holds a record of this level
Logged(level) == \E i \in 1..Len(last.log) : last.log[i].level = level
\* the log holds this frame under this heading
LoggedFrame(event, frame) ==
    \E i \in 1..Len(last.log) :
        /\ last.log[i].level = "INFO"
        /\ last.log[i].event = event
        /\ last.log[i].text = frame

\* C1: in dummy mode every read request (function code 3 or 4) is answered
\* with None whatever the lookup gave, and when the file satisfies the
\* request the frame is still rendered, once, and logged as not sent.
C1_DryRunSuppression ==
    (ReadCall /\ dummy_mode) =>
        /\ last.ret = None
        /\ Satisfies(last.file, last.count) =>
              /\ Len(last.frames) = 1
              /\ last.frames[1] =
                    format_modbus_response(DefaultSlave, last.fx,
                        SubSeq(ExpValues(last.file), 1, last.count))
              /\ LoggedFrame("Full Modbus Response (not sent) (Hex)",
                             last.frames[1])

\* C2: in live mode a read request for count >= 1 registers whose file has
\* only well-formed kept lines, at least count of them, is answered with
\* exactly the first count values in file order; other lines are skipped.
C2_LiveHit ==
    (ReadCall /\ ~dummy_mode /\ last.count >= 1
        /\ Satisfies(last.file, last.count)) =>
        last.ret = Some(SubSeq(ExpValues(last.file), 1, last.count))

C2_Witness ==
    /\ ReadCall /\ ~dummy_mode
    /\ Satisfies(last.file, last.count)
    /\ Len(ExpKept(last.file)) < Len(last.file.lines)
    /\ Len(ExpValues(last.file)) > last.count
    /\ last.ret = Some(SubSeq(ExpValues(last.file), 1, last.count))

\* C3: in live mode a read request whose lookup fails for any reason is
\* answered with None, no exception reaches the caller, and the default
\* handler is not called; the default handler is called only for function
\* codes other than 3 and 4.
C3_SilentMiss ==
    /\ (ReadCall /\ ~dummy_mode /\ ~Satisfies(last.file, last.count)) =>
          (last.ret = None /\ last.fallback = <<>>)
    /\ (last.kind = "call" /\ last.fallback # <<>>) => last.fx \notin ReadCodes

\* C4: a request with a function code other than 3 and 4 looks no file up,
\* renders no frame, calls the default handler once with the same function
\* code, address and count, and returns its answer unchanged, in dummy mode
\* as in live mode.
C4_FallbackDelegation ==
    OtherCall =>
        /\ last.lookups = <<>>
        /\ last.frames = <<>>
        /\ last.fallback = <<<<last.fx, last.address, last.count>>>>
        /\ last.ret = last.sup

C4_Witness ==
    /\ OtherCall /\ dummy_mode
    /\ FileOnDisk(last.address).exists
    /\ last.sup.some
    /\ last.ret = last.sup

\* C5: for every content of the file, the lookup of a read request yields
\* None or exactly count values: None when the file has fewer values than
\* count, count values when it has exactly count well-formed kept lines; a
\* frame is rendered only from a non-empty list of values.
C5_AllOrNothing ==
    (ReadCall /\ Opens(last.file)) =>
        /\ last.values = None
              \/ (last.values.some /\ Len(last.values.vals) = last.count)
        /\ (last.file.exists /\ Len(ExpValues(last.file)) < last.count) =>
              last.values = None
        /\ (IsText(last.file) /\ ~ExpBad(last.file)
              /\ Len(ExpValues(last.file)) = last.count) =>
              last.values = Some(ExpValues(last.file))
        /\ last.values.some => last.values.vals # <<>>
        /\ last.frames # <<>> => (last.values.some /\ last.values.vals # <<>>)

C5_Witness ==
    /\ ReadCall
    /\ IsText(last.file) /\ ~ExpBad(last.file)
    /\ Len(ExpValues(last.file)) = last.count
    /\ last.values = Some(ExpValues(last.file))
    /\ last.frames # <<>>

\* what validate_file_response returns when there is no file
NotFoundValue == validate_response(NoFile, last.address, last.count).ret

\* the rejection of a file with a malformed kept line, and its logging
C6_Rejected ==
    /\ (ReadCall /\ last.file.exists /\ ExpBad(last.file)) =>
          /\ last.values = None
          /\ last.ret = None
          /\ last.frames = <<>>
          /\ Logged("ERROR") /\ ~Logged("WARNING")
    /\ (ReadCall /\ (~last.file.exists \/ IsText(last.file))
          /\ ~ExpBad(last.file) /\ ~Satisfies(last.file, last.count)) =>
          /\ Logged("WARNING") /\ ~Logged("ERROR")

\* C6: a file with a malformed kept line is rejected as a whole, even when
\* it has count or more well-formed lines: the lookup returns None, the same
\* value as for a missing file, and the rejection differs from not-found and
\* insufficient-data only in its log record, which is at error level where
\* theirs are at warning level.
C6_MalformedRejected ==
    /\ C6_Rejected
    /\ (ReadCall /\ last.file.exists /\ ExpBad(last.file)) =>
          last.values = NotFoundValue

\* C6 as stated: the lookup's return for a malformed line is distinct from
\* its return for a missing file.
C6_Original ==
    /\ C6_Rejected
    /\ (ReadCall /\ last.file.exists /\ ExpBad(last.file)) =>
          last.values # NotFoundValue

C6_Witness ==
    /\ ReadCall
    /\ last.file.exists /\ ExpBad(last.file)
    /\ GoodCount(last.file) >= last.count
    /\ last.values = None
    /\ Logged("ERROR")

(***************************************************************************)
(* Reading a rendered frame back: elements separated by single spaces,     *)
(* each two upper-case hexadecimal digits.                                 *)
(***************************************************************************)
UpperHex == <<"0", "1", "2", "3", "4", "5", "6", "7",
              "8", "9", "A", "B", "C", "D", "E", "F">>

IsUpperHex(c) == \E i \in 1..16 : UpperHex[i] = c
UpperHexValue(c) == (CHOOSE i \in 1..16 : UpperHex[i] = c) - 1

\* text is n elements, each one byte written as two hexadecimal digits
IsByteText(text, n) ==
    /\ Len(text) = 3 * n - 1
    /\ \A k \in 1..n :
          /\ IsUpperHex(text[3 * k - 2])
          /\ IsUpperHex(text[3 * k - 1])
          /\ k < n => text[3 * k] = " "

\* the k-th element of a byte text
ByteAt(text, k) ==
    16 * UpperHexValue(text[3 * k - 2]) + UpperHexValue(text[3 * k - 1])

\* the first n elements of a byte text, as numbers
BytesOf(text, n) == [k \in 1..n |-> ByteAt(text, k)]

\* the frame layout for the n values of calc.data
FrameLayout(n) ==
    LET text == calc.text
        crc == calculate_crc(BytesOf(text, 3 + 2 * n))
    IN  /\ IsByteText(text, 3 + 2 * n + 2)
        /\ ByteAt(text, 1) = calc.slave
        /\ ByteAt(text, 2) = calc.fc
        /\ ByteAt(text, 3) = 2 * n
        /\ \A i \in 1..n :
              /\ ByteAt(text, 3 + 2 * i - 1) = (calc.data[i] \div 256) % 256
              /\ ByteAt(text, 3 + 2 * i) = calc.data[i] % 256
        /\ ByteAt(text, 3 + 2 * n + 1) = crc % 256
        /\ ByteAt(text, 3 + 2 * n + 2) = crc \div 256

\* C7: for a slave address and function code in 0..255 and 1 <= n <= 127
\* register values, the frame is 3 + 2n + 2 single bytes: slave address,
\* function code, byte count 2n, each value high byte then low byte, then
\* the low and the high byte of calculate_crc over all that precedes.
C7_FrameLayout ==
    (calc.op = "frame" /\ Len(calc.data) >= 1 /\ 2 * Len(calc.data) <= 255) =>
        FrameLayout(Len(calc.data))

\* C7 as stated: the same for every non-empty sequence of values.
C7_Original ==
    (calc.op = "frame" /\ Len(calc.data) >= 1) => FrameLayout(Len(calc.data))

C7_Witness ==
    /\ calc.op = "frame"
    /\ 2 * Len(calc.data) = 254
    /\ calc.data[1] = 65535
    /\ FrameLayout(Len(calc.data))

(***************************************************************************)
(* The CRC16 of Modbus RTU taken bit by bit: each input bit, low bit       *)
(* first, is compared with the low bit of the register, the register is    *)
(* shifted right, and 0xA001 is folded in when the two bits differed.      *)
(***************************************************************************)
RefBit(reg, bit) ==
    IF (reg % 2) # bit THEN BitXor(reg \div 2, 40961) ELSE reg \div 2

RECURSIVE RefBits(_, _, _)
\* the register after bits k..7 of byte
RefBits(reg, byte, k) ==
    IF k > 7 THEN reg
    ELSE LET next == RefBit(reg, (byte \div (2 ^ k)) % 2)
         IN  IF next \in 0..65535 THEN RefBits(next, byte, k + 1) ELSE next

RECURSIVE RefCrc(_, _)
\* the register after the first n bytes of data
RefCrc(data, n) ==
    IF n = 0 THEN 65535
    ELSE LET before == RefCrc(data, n - 1)
         IN  IF before \in 0..65535 THEN RefBits(before, data[n], 0) ELSE before

\* published check values: the frame 01 03 00 00 00 01 carries 84 0A, and
\* CRC-16/MODBUS of "123456789" is 4B37
KnownCrc(data) ==
    /\ data = <<>> => calc.crc = 65535
    /\ data = <<1, 3, 0, 0, 0, 1>> => calc.crc = 2692
    /\ data = <<49, 50, 51, 52, 53, 54, 55, 56, 57>> => calc.crc = 19255

\* C8: calculate_crc of a sequence of bytes is a 16-bit value, equal to the
\* Modbus RTU CRC16 of the sequence; the empty sequence gives 0xFFFF.
C8_CrcCorrect ==
    calc.op = "crc" =>
        /\ calc.crc \in 0..65535
        /\ calc.crc = RefCrc(calc.data, Len(calc.data))
        /\ KnownCrc(calc.data)

C8_Witness ==
    /\ calc.op = "crc"
    /\ calc.data = <<1, 3, 0, 0, 0, 1>>
    /\ calc.crc = 2692

(***************************************************************************)
(* Requests over time.                                                     *)
(***************************************************************************)
SameRequest(a, b) ==
    /\ a.kind = "call" /\ b.kind = "call"
    /\ a.fx \in ReadCodes /\ b.fx \in ReadCodes
    /\ a.address = b.address
    /\ a.count = b.count

\* two read requests for the same address and count that met the same file
\* content were answered alike, and a live answer is the one the file
\* content at that moment calls for
C9_Determined ==
    /\ (SameRequest(last, memo) /\ last.file = memo.file) => last.ret = memo.ret
    /\ (ReadCall /\ ~dummy_mode) =>
          last.ret = IF Satisfies(last.file, last.count)
                     THEN Some(SubSeq(ExpValues(last.file), 1, last.count))
                     ELSE None

\* a request changes neither the files nor the mode
C9_ReadOnly ==
    /\ last' # last => files' = files
    /\ dummy_mode' = dummy_mode

\* C9: the answer to a read request depends on the address, the count, the
\* mode and the content of the address's file at the moment of the request
\* only, whatever requests and file contents came before; a request changes
\* neither the files nor the mode, and the mode never changes.
C9_NoCaching == []C9_Determined /\ [][C9_ReadOnly]_vars

\* an edit between two requests for the same registers changed the answer
C9_Witness ==
    /\ ~dummy_mode
    /\ SameRequest(last, memo)
    /\ memo.file.exists /\ last.file.exists
    /\ last.file # memo.file
    /\ memo.ret.some /\ last.ret = None
    /\ FileOnDisk(last.address) = last.file

\* the frame a live read request logged
LoggedText ==
    last.log[CHOOSE i \in 1..Len(last.log) :
                 last.log[i].event = "Full Modbus Response (Hex)"].text

\* C10: every value a live read request returns is an unsigned 16-bit
\* integer and is the value the logged frame carries at its place: 256 times
\* the high byte plus the low byte.
C10_ReturnedEqualsLogged ==
    (ReadCall /\ ~dummy_mode /\ last.ret.some) =>
        \A i \in 1..Len(last.ret.vals) :
            /\ last.ret.vals[i] \in 0..65535
            /\ last.ret.vals[i] =
                  256 * ByteAt(LoggedText, 3 + 2 * i - 1)
                      + ByteAt(LoggedText, 3 + 2 * i)

====
